---- MODULE Spec2Model ----
(***************************************************************************)
(* Model of backuper/backuperV6.py: the retention job that lists the       *)
(* indices of an OpenSearch cluster, classifies the ones older than a      *)
(* number of days, and either snapshots-then-deletes them (backup_delete)  *)
(* or deletes them directly (delete).                                      *)
(*                                                                         *)
(* Strings are sequences of one-character strings, so that rsplit,         *)
(* strptime and the f-string that builds the snapshot name are computed.   *)
(***************************************************************************)
EXTENDS Integers, Sequences, FiniteSets, TLC

VARIABLES
    action,                  \* args.action: "backup_delete" or "delete"
    redundancy_period_days,  \* args.days
    disk_usage_threshold,    \* config Snapshot.disk_usage_threshold
    snapshot_max_retries,    \* config Snapshot.snapshot_max_retries
    snapshot_retry_interval, \* config Snapshot.snapshot_retry_interval
    current_date,            \* datetime.datetime.now(), taken once per run
    cluster,                 \* the cluster's indices, in the order get_alias reports them
    indices,                 \* the names get_alias returned (the keys of the dict)
    old_indices,             \* the list of (index_name, creation_date) pairs
    pos,                     \* position of the for loop in old_indices (1-based)
    retries,                 \* the wait loop's counter
    pc,                      \* where the run function stands
    calls,                   \* every external call made so far, with its outcome
    printed                  \* the lines printed so far, as (kind, index_name)

vars == <<action, redundancy_period_days, disk_usage_threshold,
          snapshot_max_retries, snapshot_retry_interval, current_date,
          cluster, indices, old_indices, pos, retries, pc, calls, printed>>

-----------------------------------------------------------------------------
(* Bounds of the model *)

\* longest index listing the cluster reports
MaxIndices == 3

\* largest configured snapshot_max_retries
MaxRetries == 2

-----------------------------------------------------------------------------
(* Strings *)

DigitChars == <<"0", "1", "2", "3", "4", "5", "6", "7", "8", "9">>

IsDigit(c) == \E i \in 1..10 : DigitChars[i] = c

DigitVal(c) == (CHOOSE i \in 1..10 : DigitChars[i] = c) - 1

\* the digit character of a value 0..9
DigitOf(v) == DigitChars[v + 1]

\* a number printed in a fixed width with leading zeros (%02d, %04d)
ZeroPad(v, width) ==
    [k \in 1..width |->
        LET RECURSIVE Pow10(_)
            Pow10(e) == IF e = 0 THEN 1 ELSE 10 * Pow10(e - 1)
        IN DigitOf((v \div Pow10(width - k)) % 10)]

\* index_name.rsplit("-", 1)[-1]: what follows the last hyphen, or the whole
\* name when it has none
LastSegment(name) ==
    LET hy == {i \in 1..Len(name) : name[i] = "-"}
        last == IF hy = {} THEN 0 ELSE CHOOSE i \in hy : \A j \in hy : j <= i
    IN SubSeq(name, last + 1, Len(name))

-----------------------------------------------------------------------------
(* Dates *)

IsLeap(y) == y % 4 = 0 /\ (y % 100 # 0 \/ y % 400 = 0)

DaysInMonth(y, m) ==
    IF m = 2 THEN (IF IsLeap(y) THEN 29 ELSE 28)
    ELSE IF m \in {4, 6, 9, 11} THEN 30 ELSE 31

RECURSIVE DaysBeforeMonth(_, _)
DaysBeforeMonth(y, m) ==
    IF m = 1 THEN 0 ELSE DaysBeforeMonth(y, m - 1) + DaysInMonth(y, m - 1)

DaysBeforeYear(y) ==
    LET p == y - 1 IN p * 365 + (p \div 4) - (p \div 100) + (p \div 400)

\* date.toordinal(): 0001-01-01 is day 1
Ordinal(y, m, d) == DaysBeforeYear(y) + DaysBeforeMonth(y, m) + d

\* datetime.datetime.strptime(s, "%Y.%m.%d"); ok = FALSE stands for ValueError.
\* The format compiles to the regular expression
\*   (\d\d\d\d)\.(1[0-2]|0[1-9]|[1-9])\.(3[01]|[12]\d|0[1-9]|[1-9]| [1-9])
\* matched at the start of s; text left over, a year of 0 or a day the month
\* does not have raise ValueError.
ValueError == [ok |-> FALSE, date |-> <<0, 0, 0>>]

Strptime(s) ==
    LET n == Len(s)
        at(i) == IF i <= n THEN s[i] ELSE ""
        dig(i) == IsDigit(at(i))
        val(i) == DigitVal(at(i))
        yearOk == dig(1) /\ dig(2) /\ dig(3) /\ dig(4) /\ at(5) = "."
        month2 == \/ at(6) = "1" /\ at(7) \in {"0", "1", "2"}
                  \/ at(6) = "0" /\ dig(7) /\ at(7) # "0"
        month1 == dig(6) /\ at(6) # "0"
        mlen == IF month2 /\ at(8) = "." THEN 2
                ELSE IF month1 /\ at(7) = "." THEN 1 ELSE 0
        p == 6 + mlen + 1
        dlen == IF at(p) = "3" /\ at(p + 1) \in {"0", "1"} THEN 2
                ELSE IF at(p) \in {"1", "2"} /\ dig(p + 1) THEN 2
                ELSE IF at(p) = "0" /\ dig(p + 1) /\ at(p + 1) # "0" THEN 2
                ELSE IF dig(p) /\ at(p) # "0" THEN 1
                ELSE IF at(p) = " " /\ dig(p + 1) /\ at(p + 1) # "0" THEN 2
                ELSE 0
    IN  IF ~yearOk \/ mlen = 0 \/ dlen = 0 \/ p + dlen - 1 # n
        THEN ValueError
        ELSE LET y == 1000 * val(1) + 100 * val(2) + 10 * val(3) + val(4)
                 m == IF mlen = 2 THEN 10 * val(6) + val(7) ELSE val(6)
                 d == IF dlen = 1 THEN val(p)
                      ELSE IF at(p) = " " THEN val(p + 1)
                      ELSE 10 * val(p) + val(p + 1)
             IN IF y < 1 \/ d > DaysInMonth(y, m)
                THEN ValueError
                ELSE [ok |-> TRUE, date |-> <<y, m, d>>]

\* (current_date - creation_date).days: datetime subtraction is the difference
\* of the ordinals in days plus the difference of the times of day in seconds,
\* and timedelta carries whole days out of the seconds (creation_date is at
\* midnight)
ElapsedDays(now, created) ==
    LET days == Ordinal(now.year, now.month, now.day)
                - Ordinal(created[1], created[2], created[3])
        secs == (now.hour * 3600 + now.minute * 60 + now.second) - 0
    IN days + (secs \div 86400)

\* creation dates compare as datetimes do: year, then month, then day
DateLess(a, b) ==
    \/ a[1] < b[1]
    \/ a[1] = b[1] /\ a[2] < b[2]
    \/ a[1] = b[1] /\ a[2] = b[2] /\ a[3] < b[3]

\* current_date.strftime('%Y%m%d%H%M%S')
Strftime(now) ==
    ZeroPad(now.year, 4) \o ZeroPad(now.month, 2) \o ZeroPad(now.day, 2)
    \o ZeroPad(now.hour, 2) \o ZeroPad(now.minute, 2) \o ZeroPad(now.second, 2)

-----------------------------------------------------------------------------
(* Exceptions: the classes of opensearchpy.exceptions the handlers name, and
   the builtin Exception they all derive from *)

ExceptionParent(cls) ==
    CASE cls = "ConnectionError" -> "TransportError"
      [] cls = "AuthorizationException" -> "TransportError"
      [] cls = "RequestError" -> "TransportError"
      [] cls = "NotFoundError" -> "TransportError"
      [] cls = "TransportError" -> "OpenSearchException"
      [] cls = "OpenSearchException" -> "Exception"
      [] OTHER -> "BaseException"

RECURSIVE IsInstance(_, _)
IsInstance(exc, cls) ==
    \/ exc = cls
    \/ exc # "BaseException" /\ IsInstance(ExceptionParent(exc), cls)

-----------------------------------------------------------------------------
(* Inputs *)

Name_logs_0101 == <<"l", "o", "g", "s", "-", "2", "0", "2", "3", ".", "0", "1", ".", "0", "1">>
Name_logs_0601 == <<"l", "o", "g", "s", "-", "2", "0", "2", "3", ".", "0", "6", ".", "0", "1">>
Name_metrics_bad == <<"m", "e", "t", "r", "i", "c", "s", "-", "b", "a", "d", "-", "n", "a", "m", "e">>
Name_events_0230 == <<"e", "v", "e", "n", "t", "s", "-", "2", "0", "2", "3", ".", "0", "2", ".", "3", "0">>
Name_nohyphen_1003 == <<"2", "0", "2", "3", ".", "1", "0", ".", "0", "3">>

\* index names the cluster may hold: two dated logs indices, an index with no
\* date, one whose date is not in the calendar, and a dated name without a
\* hyphen
IndexNames ==
    {Name_logs_0101, Name_logs_0601, Name_metrics_bad, Name_events_0230,
     Name_nohyphen_1003}

\* every listing of at most MaxIndices distinct names, in any order (the
\* listing is a dict, so no name occurs twice)
Listings ==
    {l \in UNION {[1..n -> IndexNames] : n \in 0..MaxIndices} :
        \A i, j \in 1..Len(l) : i # j => l[i] # l[j]}

\* 2024-01-01 13:30:05
Clock == [year |-> 2024, month |-> 1, day |-> 1,
          hour |-> 13, minute |-> 30, second |-> 5]

\* values of --days: on 2024-01-01 the dated names are 365, 214 and 90 days
\* old, so 90 is the age of one of them and 213 one day less than another's
DaysArgs == {90, 213}

\* used percentages shutil.disk_usage can give, around a threshold of 90
DiskSamples == {90, 96}

DiskThresholds == {90}

RetryIntervals == {30}

\* what each cluster call may raise
GetAliasRaises == {"ConnectionError", "AuthorizationException", "RequestError",
                   "NotFoundError"}
CreateRaises == {"RequestError", "ConnectionError"}
StatusRaises == {"ConnectionError"}
DeleteRaises == {"RequestError", "NotFoundError"}

\* states a snapshot status query reports
SnapshotStates == {"SUCCESS", "FAILED", "PARTIAL", "IN_PROGRESS"}

-----------------------------------------------------------------------------
(* Index Classifier: lines 54-66 and 157-169 *)

\* mutant: the staleness test is not strict
IsStale_NotStrict(now, creation_date, days) == ElapsedDays(now, creation_date) >= days

\* the staleness test of lines 59 and 162
IsStale(now, creation_date, days) == ElapsedDays(now, creation_date) > days

\* mutant: a name that does not parse ends the loop instead of being passed over
RECURSIVE CollectOld_StopsAtBadName(_, _, _)
CollectOld_StopsAtBadName(listing, now, days) ==
    IF listing = <<>> THEN <<>>
    ELSE LET name == Head(listing)
             parsed == Strptime(LastSegment(name))
             rest == CollectOld_StopsAtBadName(Tail(listing), now, days)
         IN IF ~parsed.ok THEN <<>>
            ELSE IF ElapsedDays(now, parsed.date) > days
            THEN <<<<name, parsed.date>>>> \o rest
            ELSE rest

\* the loop over indices.items(): names that do not parse are passed over,
\* names that parse to a date old enough are appended in listing order
RECURSIVE CollectOld(_, _, _)
CollectOld(listing, now, days) ==
    IF listing = <<>> THEN <<>>
    ELSE LET name == Head(listing)
             parsed == Strptime(LastSegment(name))
             rest == CollectOld(Tail(listing), now, days)
         IN IF parsed.ok /\ IsStale(now, parsed.date, days)
            THEN <<<<name, parsed.date>>>> \o rest
            ELSE rest

\* mutant: the list is left in listing order
SortByDate_Unsorted(pairs) == pairs

\* old_indices.sort(key=lambda x: x[1]): a stable sort, so an entry goes after
\* every entry whose date is not later than its own
RECURSIVE SortByDate(_)
SortByDate(pairs) ==
    IF pairs = <<>> THEN <<>>
    ELSE LET front == SortByDate(SubSeq(pairs, 1, Len(pairs) - 1))
             x == pairs[Len(pairs)]
             k == Cardinality({i \in 1..Len(front) : ~DateLess(x[2], front[i][2])})
         IN SubSeq(front, 1, k) \o <<x>> \o SubSeq(front, k + 1, Len(front))

Classify(listing, now, days) == SortByDate(CollectOld(listing, now, days))

-----------------------------------------------------------------------------
(* Helpers of the run functions *)

\* mutant: the free percentage is compared instead of the used one
DiskExceeded_FreeSpace(used_percent, threshold) == (100 - used_percent) > threshold

\* check_disk_space(path) > disk_usage_threshold, lines 73 and 122
DiskExceeded(used_percent, threshold) == used_percent > threshold

\* mutant: the wait loop runs one pass too many
WaitLoopRuns_OneMore(n, max_retries) == n <= max_retries

\* the wait loop's condition, line 99
WaitLoopRuns(n, max_retries) == n < max_retries

\* mutant: PARTIAL is not taken for a terminal state
StatusOutcome_PartialWaits(state) ==
    IF state = "SUCCESS" THEN "break"
    ELSE IF state = "FAILED" THEN "raise"
    ELSE "sleep"

\* what one pass of the wait loop does with the state it reads, lines 103-111
StatusOutcome(state) ==
    IF state = "SUCCESS" THEN "break"
    ELSE IF state \in {"FAILED", "PARTIAL"} THEN "raise"
    ELSE "sleep"

\* mutant: the test after the wait loop is off by one
WaitTimedOut_OffByOne(n, max_retries) == n > max_retries

\* the test after the wait loop, line 113
WaitTimedOut(n, max_retries) == n >= max_retries

\* f"snapshot-{index_name}-{current_date.strftime('%Y%m%d%H%M%S')}", line 81
SnapshotName(index_name, now) ==
    <<"s", "n", "a", "p", "s", "h", "o", "t", "-">> \o index_name \o <<"-">> \o Strftime(now)

\* mutant: the catch-all clause of line 130 is missing
PerIndexExcept_RequestOnly(exc) ==
    IF IsInstance(exc, "RequestError") THEN "Failed to create snapshot for index"
    ELSE "propagate"

\* the except clauses around one index of the backup loop, lines 128-131,
\* tried in order; "propagate" when none matches
PerIndexExcept(exc) ==
    IF IsInstance(exc, "RequestError") THEN "Failed to create snapshot for index"
    ELSE IF IsInstance(exc, "Exception") THEN "Error processing index"
    ELSE "propagate"

\* mutant: the catch-all clause of line 182 is missing
DeleteOnlyExcept_RequestOnly(exc) ==
    IF IsInstance(exc, "RequestError") THEN "Failed to delete index"
    ELSE "propagate"

\* the except clauses around one index of the delete loop, lines 180-183
DeleteOnlyExcept(exc) ==
    IF IsInstance(exc, "RequestError") THEN "Failed to delete index"
    ELSE IF IsInstance(exc, "Exception") THEN "Error deleting index"
    ELSE "propagate"

\* the except clauses around each run function, lines 133-140 and 185-192
RunExcept(exc) ==
    IF IsInstance(exc, "ConnectionError") THEN "Connection error"
    ELSE IF IsInstance(exc, "AuthorizationException") THEN "Authorization exception"
    ELSE IF IsInstance(exc, "RequestError") THEN "Request error"
    ELSE IF IsInstance(exc, "Exception") THEN "Error retrieving indices"
    ELSE "propagate"

NoIndex == <<>>

\* one external call: the operation, the index and the snapshot it names, its
\* outcome (a response or the exception raised) and the number it carries
Call(op, index, snapshot, res, val) ==
    [op |-> op, index |-> index, snapshot |-> snapshot, res |-> res, val |-> val]

Line(msg, index_name) == [msg |-> msg, index |-> index_name]

\* the "Index: ..." lines of lines 69-70 and 172-173
ListingLines(pairs) == [i \in 1..Len(pairs) |-> Line("Index", pairs[i][1])]

\* the day after a calendar date
NextDay(now) ==
    IF now.day < DaysInMonth(now.year, now.month)
    THEN [now EXCEPT !.day = now.day + 1]
    ELSE IF now.month < 12
    THEN [now EXCEPT !.day = 1, !.month = now.month + 1]
    ELSE [now EXCEPT !.day = 1, !.month = 1, !.year = now.year + 1]

RECURSIVE AddDays(_, _)
AddDays(now, n) == IF n = 0 THEN now ELSE AddDays(NextDay(now), n - 1)

\* the wall clock s seconds after the reading `now`
AddSeconds(now, s) ==
    LET total == now.hour * 3600 + now.minute * 60 + now.second + s
        later == AddDays(now, total \div 86400)
    IN [later EXCEPT !.hour = (total % 86400) \div 3600,
                     !.minute = (total % 3600) \div 60,
                     !.second = total % 60]

\* the seconds spent in time.sleep (line 110) by a sequence of calls
RECURSIVE SleptIn(_)
SleptIn(cs) ==
    IF cs = <<>> THEN 0
    ELSE (IF Head(cs).op = "sleep" THEN Head(cs).val ELSE 0) + SleptIn(Tail(cs))

\* what datetime.now() would return at this point of a run that read Clock
\* at line 50: the time that has passed since is the time it slept
Now == AddSeconds(Clock, SleptIn(calls))

\* mutant: the timestamp of the snapshot name is read when the name is built
snapshot_name_FreshClock == SnapshotName(old_indices[pos][1], Now)

index_name == old_indices[pos][1]

snapshot_name == SnapshotName(index_name, current_date)

\* mutant: the for loop starts again on the entry it has just left
NextIndex_SameEntry(head) ==
    /\ pos' = pos
    /\ pc' = head

\* the for loop moves to its next entry, or ends and the function returns
NextIndex(head) ==
    /\ pos' = pos + 1
    /\ pc' = IF pos + 1 > Len(old_indices) THEN "done" ELSE head

\* mutant: the disk is sampled again after an index that ended in an error
RaiseInBackupLoop_ThenDiskCheck(exc) ==
    /\ printed' = Append(printed, Line(PerIndexExcept(exc), index_name))
    /\ pc' = "disk_after"
    /\ pos' = pos

\* an exception raised while an index is processed in the backup loop
RaiseInBackupLoop(exc) ==
    IF PerIndexExcept(exc) # "propagate"
    THEN /\ printed' = Append(printed, Line(PerIndexExcept(exc), index_name))
         /\ NextIndex("create")
    ELSE IF RunExcept(exc) # "propagate"
    THEN /\ printed' = Append(printed, Line(RunExcept(exc), NoIndex))
         /\ pc' = "done"
         /\ pos' = pos
    ELSE /\ pc' = "raised"
         /\ UNCHANGED <<printed, pos>>

\* an exception raised while an index is processed in the delete loop
RaiseInDeleteLoop(exc) ==
    IF DeleteOnlyExcept(exc) # "propagate"
    THEN /\ printed' = Append(printed, Line(DeleteOnlyExcept(exc), index_name))
         /\ NextIndex("delete_only")
    ELSE IF RunExcept(exc) # "propagate"
    THEN /\ printed' = Append(printed, Line(RunExcept(exc), NoIndex))
         /\ pc' = "done"
         /\ pos' = pos
    ELSE /\ pc' = "raised"
         /\ UNCHANGED <<printed, pos>>

\* os_client.indices.delete(index=...) acknowledged: the index is gone
Remove(listing, name) == SelectSeq(listing, LAMBDA x : x # name)

config == <<action, redundancy_period_days, disk_usage_threshold,
            snapshot_max_retries, snapshot_retry_interval, current_date>>

\* what the loops leave alone
fixed == <<config, indices, old_indices>>

-----------------------------------------------------------------------------
(* The run *)

Init ==
    /\ action \in {"backup_delete", "delete"}
    /\ redundancy_period_days \in DaysArgs
    /\ disk_usage_threshold \in DiskThresholds
    /\ snapshot_max_retries \in 0..MaxRetries
    /\ snapshot_retry_interval \in RetryIntervals
    /\ current_date = Clock
    /\ cluster \in Listings
    /\ indices = <<>>
    /\ old_indices = <<>>
    /\ pos = 1
    /\ retries = 0
    /\ pc = "start"
    /\ calls = <<>>
    /\ printed = <<>>

\* mutant: a failed listing is reported and the run goes on with no index
ListIndices_ErrorNotFatal ==
    /\ pc = "start"
    /\ \/ \E exc \in GetAliasRaises :
            /\ calls' = Append(calls, Call("indices.get_alias", NoIndex, NoIndex, exc, 0))
            /\ printed' = Append(printed, Line(RunExcept(exc), NoIndex))
            /\ pc' = IF action = "backup_delete" THEN "disk_gate" ELSE "done"
            /\ UNCHANGED <<indices, old_indices, pos>>
       \/ /\ calls' = Append(calls, Call("indices.get_alias", NoIndex, NoIndex, "ok", 0))
          /\ indices' = cluster
          /\ old_indices' = Classify(indices', current_date, redundancy_period_days)
          /\ printed' = printed \o ListingLines(old_indices')
          /\ pos' = 1
          /\ pc' = IF action = "backup_delete" THEN "disk_gate"
                   ELSE IF old_indices' = <<>> THEN "done" ELSE "delete_only"
    /\ UNCHANGED <<config, cluster, retries>>

\* lines 42-70 and 145-173: connect, list the indices, classify, sort, print
ListIndices ==
    /\ pc = "start"
    /\ \/ \E exc \in GetAliasRaises :
            /\ calls' = Append(calls, Call("indices.get_alias", NoIndex, NoIndex, exc, 0))
            /\ IF RunExcept(exc) # "propagate"
               THEN /\ printed' = Append(printed, Line(RunExcept(exc), NoIndex))
                    /\ pc' = "done"
               ELSE /\ pc' = "raised"
                    /\ UNCHANGED printed
            /\ UNCHANGED <<indices, old_indices, pos>>
       \/ /\ calls' = Append(calls, Call("indices.get_alias", NoIndex, NoIndex, "ok", 0))
          /\ indices' = cluster
          /\ old_indices' = Classify(indices', current_date, redundancy_period_days)
          /\ printed' = printed \o ListingLines(old_indices')
          /\ pos' = 1
          /\ pc' = IF action = "backup_delete" THEN "disk_gate"
                   ELSE IF old_indices' = <<>> THEN "done" ELSE "delete_only"
    /\ UNCHANGED <<config, cluster, retries>>

\* lines 72-80: the disk check before the backup loop
DiskGate ==
    /\ pc = "disk_gate"
    /\ \E used_percent \in DiskSamples :
        /\ calls' = Append(calls, Call("disk_usage", NoIndex, NoIndex, "ok", used_percent))
        /\ IF DiskExceeded(used_percent, disk_usage_threshold)
           THEN /\ printed' = Append(printed, Line("Disk usage exceeded before starting", NoIndex))
                /\ pc' = "done"
           ELSE /\ pc' = IF old_indices = <<>> THEN "done" ELSE "create"
                /\ UNCHANGED printed
    /\ UNCHANGED <<fixed, cluster, pos, retries>>

\* lines 81-98: name the snapshot, request it, reset the retry counter
CreateSnapshot ==
    /\ pc = "create"
    /\ \/ /\ calls' = Append(calls, Call("snapshot.create", index_name, snapshot_name, "ack", 0))
          /\ printed' = Append(printed, Line("Snapshot created for index", index_name))
          /\ retries' = 0
          /\ pc' = "wait"
          /\ pos' = pos
       \/ \E exc \in CreateRaises :
            /\ calls' = Append(calls, Call("snapshot.create", index_name, snapshot_name, exc, 0))
            /\ RaiseInBackupLoop(exc)
            /\ UNCHANGED retries
    /\ UNCHANGED <<fixed, cluster>>

\* mutant: the pass that saw SUCCESS is counted before the test of line 113
AfterWait_CountsLastPoll(n) ==
    IF WaitTimedOut(n + 1, snapshot_max_retries)
    THEN /\ printed' = Append(printed, Line("Snapshot creation timed out for index", index_name))
         /\ NextIndex("create")
    ELSE /\ pc' = "delete"
         /\ UNCHANGED <<printed, pos>>

\* lines 113-115 and 117: the test that follows the wait loop
AfterWait(n) ==
    IF WaitTimedOut(n, snapshot_max_retries)
    THEN /\ printed' = Append(printed, Line("Snapshot creation timed out for index", index_name))
         /\ NextIndex("create")
    ELSE /\ pc' = "delete"
         /\ UNCHANGED <<printed, pos>>

\* mutant: the pass that sleeps does not count (line 111 is missing)
PollStatus_NoCount ==
    /\ pc = "wait"
    /\ WaitLoopRuns(retries, snapshot_max_retries)
    /\ \/ \E state \in SnapshotStates :
            LET query == Call("snapshot.status", NoIndex, snapshot_name, state, 0) IN
            IF StatusOutcome(state) = "break"
            THEN /\ calls' = Append(calls, query)
                 /\ AfterWait(retries)
                 /\ UNCHANGED retries
            ELSE IF StatusOutcome(state) = "raise"
            THEN /\ calls' = Append(calls, query)
                 /\ RaiseInBackupLoop("Exception")
                 /\ UNCHANGED retries
            ELSE /\ calls' = calls \o <<query,
                        Call("sleep", NoIndex, NoIndex, "ok", snapshot_retry_interval)>>
                 /\ printed' = Append(printed, Line("Waiting for snapshot", index_name))
                 /\ UNCHANGED <<retries, pc, pos>>
       \/ \E exc \in StatusRaises :
            /\ calls' = Append(calls, Call("snapshot.status", NoIndex, snapshot_name, exc, 0))
            /\ RaiseInBackupLoop(exc)
            /\ UNCHANGED retries
    /\ UNCHANGED <<fixed, cluster>>

\* lines 99-111: one pass of the wait loop
PollStatus ==
    /\ pc = "wait"
    /\ WaitLoopRuns(retries, snapshot_max_retries)
    /\ \/ \E state \in SnapshotStates :
            LET query == Call("snapshot.status", NoIndex, snapshot_name, state, 0) IN
            IF StatusOutcome(state) = "break"
            THEN /\ calls' = Append(calls, query)
                 /\ AfterWait(retries)
                 /\ UNCHANGED retries
            ELSE IF StatusOutcome(state) = "raise"
            THEN /\ calls' = Append(calls, query)
                 /\ RaiseInBackupLoop("Exception")
                 /\ UNCHANGED retries
            ELSE /\ calls' = calls \o <<query,
                        Call("sleep", NoIndex, NoIndex, "ok", snapshot_retry_interval)>>
                 /\ printed' = Append(printed, Line("Waiting for snapshot", index_name))
                 /\ retries' = retries + 1
                 /\ UNCHANGED <<pc, pos>>
       \/ \E exc \in StatusRaises :
            /\ calls' = Append(calls, Call("snapshot.status", NoIndex, snapshot_name, exc, 0))
            /\ RaiseInBackupLoop(exc)
            /\ UNCHANGED retries
    /\ UNCHANGED <<fixed, cluster>>

\* lines 99 and 113-117: the wait loop's condition is false
WaitLoopEnds ==
    /\ pc = "wait"
    /\ ~WaitLoopRuns(retries, snapshot_max_retries)
    /\ AfterWait(retries)
    /\ UNCHANGED <<fixed, cluster, retries, calls>>

\* lines 117-119: delete the index whose snapshot succeeded
DeleteIndex ==
    /\ pc = "delete"
    /\ \/ /\ calls' = Append(calls, Call("indices.delete", index_name, NoIndex, "ack", 0))
          /\ cluster' = Remove(cluster, index_name)
          /\ printed' = Append(printed, Line("Index deleted after snapshot creation", index_name))
          /\ pc' = "disk_after"
          /\ pos' = pos
       \/ \E exc \in DeleteRaises :
            /\ calls' = Append(calls, Call("indices.delete", index_name, NoIndex, exc, 0))
            /\ RaiseInBackupLoop(exc)
            /\ UNCHANGED cluster
    /\ UNCHANGED <<fixed, retries>>

\* mutant: the warning is printed but the function does not return
DiskAfterDelete_NoReturn ==
    /\ pc = "disk_after"
    /\ \E used_percent \in DiskSamples :
        /\ calls' = Append(calls, Call("disk_usage", NoIndex, NoIndex, "ok", used_percent))
        /\ printed' = IF DiskExceeded(used_percent, disk_usage_threshold)
                      THEN Append(printed, Line("Disk usage exceeded after processing index", index_name))
                      ELSE printed
        /\ NextIndex("create")
    /\ UNCHANGED <<fixed, cluster, retries>>

\* lines 121-126: the disk check after a deletion
DiskAfterDelete ==
    /\ pc = "disk_after"
    /\ \E used_percent \in DiskSamples :
        /\ calls' = Append(calls, Call("disk_usage", NoIndex, NoIndex, "ok", used_percent))
        /\ IF DiskExceeded(used_percent, disk_usage_threshold)
           THEN /\ printed' = Append(printed, Line("Disk usage exceeded after processing index", index_name))
                /\ pc' = "done"
                /\ pos' = pos
           ELSE /\ NextIndex("create")
                /\ UNCHANGED printed
    /\ UNCHANGED <<fixed, cluster, retries>>

\* lines 175-183: one pass of the delete loop of list_delete_old_indices
DeleteOnly ==
    /\ pc = "delete_only"
    /\ \/ /\ calls' = Append(calls, Call("indices.delete", index_name, NoIndex, "ack", 0))
          /\ cluster' = Remove(cluster, index_name)
          /\ printed' = Append(printed, Line("Index deleted", index_name))
          /\ NextIndex("delete_only")
       \/ \E exc \in DeleteRaises :
            /\ calls' = Append(calls, Call("indices.delete", index_name, NoIndex, exc, 0))
            /\ RaiseInDeleteLoop(exc)
            /\ UNCHANGED cluster
    /\ UNCHANGED <<fixed, retries>>

Next ==
    \/ ListIndices
    \/ DiskGate
    \/ CreateSnapshot
    \/ PollStatus
    \/ WaitLoopEnds
    \/ DeleteIndex
    \/ DiskAfterDelete
    \/ DeleteOnly

Spec == Init /\ [][Next]_vars

\* the run is one sequential thread: main calls the run function, every
\* statement is followed by the next one, time.sleep returns and every client
\* call returns or raises (the client's requests time out). So a run does not
\* stop while one of its steps is enabled.
FairSpec == Spec /\ WF_vars(Next)

-----------------------------------------------------------------------------
(* Reading the record of calls *)

OldNames == {old_indices[p][1] : p \in DOMAIN old_indices}

\* the calls of one kind made for index x (a status query names only the
\* snapshot: it is x's when x's create request named that snapshot)
CreatesOf(x) ==
    {k \in DOMAIN calls : calls[k].op = "snapshot.create" /\ calls[k].index = x}

DeletesOf(x) ==
    {k \in DOMAIN calls : calls[k].op = "indices.delete" /\ calls[k].index = x}

PollsOf(x) ==
    {k \in DOMAIN calls :
        /\ calls[k].op = "snapshot.status"
        /\ \E i \in CreatesOf(x) : calls[i].snapshot = calls[k].snapshot}

Terminal == {"SUCCESS", "FAILED", "PARTIAL"}

\* the status queries for x that returned a state which is not terminal
WaitingPollsOf(x) == {k \in PollsOf(x) : calls[k].res \in SnapshotStates \ Terminal}

Succeeded(x) == \E k \in PollsOf(x) : calls[k].res = "SUCCESS"

PerIndexOps == {"snapshot.create", "snapshot.status", "indices.delete"}

Finished == pc \in {"done", "raised"}

-----------------------------------------------------------------------------
(* Claims *)

\* C1: in backup_delete mode an index is deleted only after its snapshot was
\* acknowledged and a status query for that same snapshot returned SUCCESS;
\* an index whose snapshot_max_retries status queries all returned a
\* non-terminal state is never deleted in the run.
C1_DeleteOnlyAfterSuccess ==
    action = "backup_delete" =>
        /\ \A k \in DOMAIN calls :
            calls[k].op = "indices.delete" =>
                \E j \in 1..(k - 1) :
                    /\ calls[j].op = "snapshot.status"
                    /\ calls[j].res = "SUCCESS"
                    /\ \E i \in 1..(j - 1) :
                        /\ calls[i].op = "snapshot.create"
                        /\ calls[i].res = "ack"
                        /\ calls[i].index = calls[k].index
                        /\ calls[i].snapshot = calls[j].snapshot
        /\ \A x \in OldNames :
            Cardinality(WaitingPollsOf(x)) = snapshot_max_retries => DeletesOf(x) = {}

\* a finished run that deleted one index after SUCCESS and left alone another
\* one whose polls (at least one) all came back non-terminal
C1_Witness ==
    /\ action = "backup_delete"
    /\ pc = "done"
    /\ snapshot_max_retries >= 1
    /\ \E x, y \in OldNames :
        /\ DeletesOf(x) # {}
        /\ CreatesOf(y) # {}
        /\ Cardinality(WaitingPollsOf(y)) = snapshot_max_retries
        /\ DeletesOf(y) = {}

\* the first disk sample of the run
FirstDiskSample ==
    LET ds == {k \in DOMAIN calls : calls[k].op = "disk_usage"}
    IN IF ds = {} THEN 0 ELSE CHOOSE k \in ds : \A m \in ds : k <= m

\* C2: in backup_delete mode, when the disk usage sampled before the first
\* index is above the threshold, the run is over and no snapshot is created,
\* no status is queried and no index is deleted, whatever the stale list is.
C2_DiskGateBlocksBatch ==
    (/\ action = "backup_delete"
     /\ FirstDiskSample # 0
     /\ calls[FirstDiskSample].val > disk_usage_threshold)
    => /\ pc = "done"
       /\ \A k \in DOMAIN calls : calls[k].op \notin PerIndexOps
       /\ cluster = indices

\* the gate closed on a run with at least two stale indices
C2_Witness ==
    /\ action = "backup_delete"
    /\ Len(old_indices) >= 2
    /\ FirstDiskSample # 0
    /\ calls[FirstDiskSample].val > disk_usage_threshold
    /\ pc = "done"

\* index x's processing ended in a snapshot failure: its snapshot was
\* requested and no status query for it returned SUCCESS
SnapshotFailed(x) == CreatesOf(x) # {} /\ ~Succeeded(x)

\* C3: in backup_delete mode, when the processing of stale index A ends
\* because its createSnapshot was rejected, a status query raised or returned
\* FAILED/PARTIAL, or the polling timed out, createSnapshot is still requested
\* for the next stale index B; and nothing raises out of the run function.
C3_FailureDoesNotAbortBatch ==
    /\ pc # "raised"
    /\ (action = "backup_delete" /\ Finished) =>
        \A p \in 1..(Len(old_indices) - 1) :
            SnapshotFailed(old_indices[p][1]) => CreatesOf(old_indices[p + 1][1]) # {}

\* a finished run of two stale indices: the first one's snapshot came back
\* FAILED or PARTIAL or its query raised, and the second was still requested
C3_Witness ==
    /\ action = "backup_delete"
    /\ pc = "done"
    /\ Len(old_indices) = 2
    /\ \E k \in PollsOf(old_indices[1][1]) : calls[k].res \notin SnapshotStates \ Terminal
    /\ ~Succeeded(old_indices[1][1])
    /\ CreatesOf(old_indices[2][1]) # {}

\* get_alias answered and the stale list was built
Listed == calls # <<>> /\ calls[1].res = "ok"

\* the age in days, on the model's clock (2024-01-01), of the dated names
AgeOnClock(name) ==
    CASE name = Name_logs_0101 -> 365
      [] name = Name_logs_0601 -> 214
      [] name = Name_nohyphen_1003 -> 90

DatedNames == {Name_logs_0101, Name_logs_0601, Name_nohyphen_1003}

\* what strptime makes of the last segment of each name
Parsed == [n \in IndexNames |-> Strptime(LastSegment(n))]

\* (current_date - creation_date).days of each dated name on the model's clock
ElapsedOnClock ==
    [n \in IndexNames |->
        IF Parsed[n].ok THEN ElapsedDays(Clock, Parsed[n].date) ELSE 0]

\* C4: in both modes an index whose name carries a valid date is in the stale
\* list iff (current_date - creation_date).days > days, a strict inequality:
\* an index aged exactly days is not stale, one aged days + 1 is.
C4_StrictStaleness ==
    Listed =>
        /\ current_date = Clock
        /\ \A i \in DOMAIN indices :
            LET n == indices[i] IN
            /\ Parsed[n].ok =>
                (n \in OldNames <=> ElapsedOnClock[n] > redundancy_period_days)
            /\ n \in DatedNames =>
                /\ Parsed[n].ok
                /\ n \in OldNames <=> AgeOnClock(n) > redundancy_period_days
                /\ AgeOnClock(n) = redundancy_period_days => n \notin OldNames
                /\ AgeOnClock(n) = redundancy_period_days + 1 => n \in OldNames

\* a listing with an index aged exactly days, which is kept, beside an older
\* one, which is stale
C4_Witness ==
    /\ Listed
    /\ \E i, j \in DOMAIN indices :
        /\ indices[i] \in DatedNames
        /\ indices[j] \in DatedNames
        /\ AgeOnClock(indices[i]) = redundancy_period_days
        /\ indices[i] \notin OldNames
        /\ AgeOnClock(indices[j]) > redundancy_period_days
        /\ indices[j] \in OldNames

\* the place of index x in the stale list
DateOf(x) == (CHOOSE p \in DOMAIN old_indices : old_indices[p][1] = x)

IndexCall(k) == calls[k].op \in {"snapshot.create", "indices.delete"}

\* C5: the stale list is sorted ascending by creation date, and the calls
\* follow it: when stale index A is strictly older than stale index B, every
\* createSnapshot and deleteIndex call for A comes before any such call for B.
C5_OldestFirst ==
    /\ \A p, q \in DOMAIN old_indices :
        p < q => ~DateLess(old_indices[q][2], old_indices[p][2])
    /\ \A k \in DOMAIN calls :
        IndexCall(k) =>
            \A m \in 1..(k - 1) :
                IndexCall(m) =>
                    ~DateLess(old_indices[DateOf(calls[k].index)][2],
                              old_indices[DateOf(calls[m].index)][2])

\* a run whose listing named the younger index first and that has made calls
\* for both: the older one's calls came first
C5_Witness ==
    /\ Listed
    /\ \E i, j \in DOMAIN indices :
        /\ i < j
        /\ indices[i] = Name_logs_0601
        /\ indices[j] = Name_logs_0101
    /\ \E k, m \in DOMAIN calls :
        /\ m < k
        /\ IndexCall(k) /\ IndexCall(m)
        /\ calls[m].index = Name_logs_0101
        /\ calls[k].index = Name_logs_0601

\* the names whose last segment raises ValueError
Unparsable == {n \in IndexNames : ~Parsed[n].ok}

\* the snapshot name a run on the model's clock would give each index
SnapshotOnClock == [n \in IndexNames |-> SnapshotName(n, Clock)]

\* each listing and value of days, with the stale list of the listing once the
\* unparsable names are taken out of it
ClassifiedAlone ==
    {<<l, d, Classify(SelectSeq(l, LAMBDA n : n \notin Unparsable), Clock, d)>> :
        l \in Listings, d \in DaysArgs}

BatchErrors == {"Connection error", "Authorization exception", "Request error",
                "Error retrieving indices"}

NamesOf(pairs) == [p \in DOMAIN pairs |-> pairs[p][1]]

DeleteCalls == SelectSeq(calls, LAMBDA c : c.op = "indices.delete")

\* C7: in delete mode no disk sample, createSnapshot or status query is ever
\* made; the deleteIndex calls are one per stale index, in the order of the
\* stale list, and a failed deleteIndex does not keep the following indices
\* from theirs: the finished run has made one call for every stale index.
C7_DeleteOnlyDeletesEach ==
    action = "delete" =>
        /\ \A k \in DOMAIN calls :
            calls[k].op \in {"indices.get_alias", "indices.delete"}
        /\ Len(DeleteCalls) <= Len(old_indices)
        /\ \A d \in DOMAIN DeleteCalls : DeleteCalls[d].index = old_indices[d][1]
        /\ (Listed /\ Finished) => Len(DeleteCalls) = Len(old_indices)
        /\ pc # "raised"

\* a finished delete run of two stale indices whose first deleteIndex failed
\* and whose second one was acknowledged
C7_Witness ==
    /\ action = "delete"
    /\ pc = "done"
    /\ Len(old_indices) = 2
    /\ Len(DeleteCalls) = 2
    /\ DeleteCalls[1].res # "ack"
    /\ DeleteCalls[2].res = "ack"

\* the index whose createSnapshot named the snapshot of call k
IndexOfSnapshot(k) ==
    calls[CHOOSE i \in DOMAIN calls :
            calls[i].op = "snapshot.create" /\ calls[i].snapshot = calls[k].snapshot].index

FailedPoll(k) == calls[k].op = "snapshot.status" /\ calls[k].res \in {"FAILED", "PARTIAL"}

\* C8: a status query that returns FAILED or PARTIAL ends the wait at once
\* with a failure for that index: no later call names the snapshot, no sleep
\* follows the query, and the index is not deleted.
C8_FailedStateEndsWait ==
    \A k \in DOMAIN calls :
        FailedPoll(k) =>
            /\ \A m \in (k + 1)..Len(calls) : calls[m].snapshot # calls[k].snapshot
            /\ k < Len(calls) => calls[k + 1].op # "sleep"
            /\ DeletesOf(IndexOfSnapshot(k)) = {}
            /\ \E c \in DOMAIN cluster : cluster[c] = IndexOfSnapshot(k)
            /\ \E l \in DOMAIN printed :
                printed[l] = Line("Error processing index", IndexOfSnapshot(k))

\* a finished run in which the first poll of a snapshot returned PARTIAL and
\* the run went on to the next index
C8_Witness ==
    /\ pc = "done"
    /\ \E k \in DOMAIN calls :
        /\ FailedPoll(k)
        /\ calls[k].res = "PARTIAL"
        /\ calls[k - 1].op = "snapshot.create"
        /\ k < Len(calls)
        /\ calls[k + 1].op = "snapshot.create"

\* the sleeps of the wait for x's snapshot: each follows one of its queries
SleepsOf(x) == {k \in DOMAIN calls : calls[k].op = "sleep" /\ (k - 1) \in PollsOf(x)}

TimedOut(x) ==
    \E l \in DOMAIN printed :
        printed[l] = Line("Snapshot creation timed out for index", x)

\* x's snapshot was acknowledged and the wait for it is over
WaitOver(x) ==
    /\ \E i \in CreatesOf(x) : calls[i].res = "ack"
    /\ ~(pc = "wait" /\ index_name = x)

\* C9 as stated: at most snapshot_max_retries status queries and sleeps per
\* snapshot, and the wait ends TimedOut exactly when snapshot_max_retries
\* queries were made and none returned SUCCESS, FAILED or PARTIAL.
C9_TimedOutIffNoTerminalState ==
    action = "backup_delete" =>
        \A x \in OldNames :
            LET polls == PollsOf(x) IN
            /\ Cardinality(polls) <= snapshot_max_retries
            /\ Cardinality(SleepsOf(x)) <= snapshot_max_retries
            /\ WaitOver(x) =>
                (TimedOut(x) <=>
                    /\ Cardinality(polls) = snapshot_max_retries
                    /\ \A k \in polls : calls[k].res \notin Terminal)

\* C9, amended: at most snapshot_max_retries status queries and sleeps (each
\* of snapshot_retry_interval) per snapshot, and the wait ends TimedOut
\* exactly when snapshot_max_retries queries were made and every one of them
\* returned a non-terminal state; a query that raises ends the wait as a
\* failure of that index.
C9_TimedOutIffAllPollsWaiting ==
    action = "backup_delete" =>
        \A x \in OldNames :
            LET polls == PollsOf(x)
                sleeps == {k \in DOMAIN calls : calls[k].op = "sleep" /\ (k - 1) \in polls}
            IN
            /\ Cardinality(polls) <= snapshot_max_retries
            /\ Cardinality(sleeps) <= snapshot_max_retries
            /\ \A k \in sleeps : calls[k].val = snapshot_retry_interval
            /\ WaitOver(x) =>
                (TimedOut(x) <=>
                    /\ Cardinality(polls) = snapshot_max_retries
                    /\ \A k \in polls : calls[k].res \in SnapshotStates \ Terminal)

\* a wait that used up a budget of two queries and two sleeps and timed out
C9_Witness ==
    /\ action = "backup_delete"
    /\ snapshot_max_retries = 2
    /\ \E x \in OldNames :
        /\ WaitOver(x)
        /\ TimedOut(x)
        /\ Cardinality(PollsOf(x)) = 2
        /\ Cardinality(SleepsOf(x)) = 2

DeletedCall(k) == calls[k].op = "indices.delete" /\ calls[k].res = "ack"

\* C10: in backup_delete mode the disk usage is sampled again right after an
\* index is deleted, and when a sample is above the threshold the run is over:
\* no call is made for any remaining index; deleted indices stay deleted.
C10_DiskCheckAfterDelete ==
    action = "backup_delete" =>
        \A k \in DOMAIN calls :
            /\ DeletedCall(k) =>
                /\ IF k = Len(calls) THEN pc = "disk_after"
                   ELSE calls[k + 1].op = "disk_usage"
                /\ \A c \in DOMAIN cluster : cluster[c] # calls[k].index
            /\ (calls[k].op = "disk_usage" /\ calls[k].val > disk_usage_threshold) =>
                /\ k = Len(calls)
                /\ pc = "done"

\* a run of two stale indices that ended on the sample taken after the first
\* deletion: the second index has no call and is still in the cluster
C10_Witness ==
    /\ action = "backup_delete"
    /\ pc = "done"
    /\ Len(old_indices) = 2
    /\ Len(calls) >= 2
    /\ DeletedCall(Len(calls) - 1)
    /\ calls[Len(calls)].op = "disk_usage"
    /\ calls[Len(calls)].val > disk_usage_threshold
    /\ calls[Len(calls) - 1].index = old_indices[1][1]
    /\ CreatesOf(old_indices[2][1]) = {}
    /\ \E c \in DOMAIN cluster : cluster[c] = old_indices[2][1]

\* the place of stale index x in the stale list
PositionOf(x) == CHOOSE p \in DOMAIN old_indices : old_indices[p][1] = x

\* the backup loop has started on x and has left it behind
Processed(x) == CreatesOf(x) # {} /\ (PositionOf(x) < pos \/ pc = "done")

LinesOf(x) == {l \in DOMAIN printed : printed[l].index = x}

\* what the run reported last about x: the outcome recorded for it
OutcomeOf(x) == printed[CHOOSE l \in LinesOf(x) : \A m \in LinesOf(x) : m <= l].msg

DeleteFailed(x) == \E k \in DeletesOf(x) : calls[k].res # "ack"

\* C11: in backup_delete mode, when the snapshot of an index succeeded and its
\* deleteIndex then fails, the outcome recorded for the index differs from the
\* one recorded for an index whose snapshot was rejected or came back failed,
\* and the run goes on to request the snapshot of the next stale index.
C11_DeleteFailedIsDistinctOutcome ==
    action = "backup_delete" =>
        \A x \in OldNames :
            (DeleteFailed(x) /\ Processed(x)) =>
                /\ \A y \in OldNames :
                    (SnapshotFailed(y) /\ Processed(y) /\ ~TimedOut(y))
                        => OutcomeOf(y) # OutcomeOf(x)
                /\ (pc = "done" /\ PositionOf(x) < Len(old_indices))
                        => CreatesOf(old_indices[PositionOf(x) + 1][1]) # {}

\* the acknowledged createSnapshot calls made before call k
AckedBefore(k) ==
    {i \in 1..(k - 1) : calls[i].op = "snapshot.create" /\ calls[i].res = "ack"}

\* when call k is made, the snapshot requested by call i is still in progress
\* in the cluster as far as the cluster has said: it answered IN_PROGRESS to a
\* status query for it and has reported no terminal state for it since
InProgressAt(i, k) ==
    /\ \E j \in (i + 1)..(k - 1) :
        /\ calls[j].op = "snapshot.status"
        /\ calls[j].snapshot = calls[i].snapshot
        /\ calls[j].res = "IN_PROGRESS"
    /\ \A j \in (i + 1)..(k - 1) :
        (calls[j].op = "snapshot.status" /\ calls[j].snapshot = calls[i].snapshot)
            => calls[j].res \notin Terminal

\* C12: snapshot issuance is strictly serialized: no createSnapshot is issued
\* while a snapshot requested earlier in the run is still in progress in the
\* cluster.
C12_SnapshotsSerialized ==
    \A k \in DOMAIN calls :
        calls[k].op = "snapshot.create" =>
            \A i \in AckedBefore(k) : ~InProgressAt(i, k)

\* the listing request of the run failed
ListFailed == calls # <<>> /\ calls[1].op = "indices.get_alias" /\ calls[1].res # "ok"

\* C13: when the listing of the indices fails (connection error, authorization
\* rejected, request error or any other exception), then in either mode the
\* run makes no disk sample, createSnapshot, status query, sleep or
\* deleteIndex: the failed listing is its only call, no index is classified
\* and the cluster keeps every index.
C13_ListFailureShortCircuits ==
    /\ calls # <<>> => calls[1].op = "indices.get_alias"
    /\ ListFailed =>
        /\ calls[1].res \in GetAliasRaises
        /\ Len(calls) = 1
        /\ pc = "done"
        /\ indices = <<>>
        /\ old_indices = <<>>
        /\ Len(printed) = 1
        /\ printed[1].msg \in BatchErrors

\* a backup run whose listing was rejected for lack of authorization, on a
\* cluster that holds both indices that are stale at 90 days
C13_Witness ==
    /\ ListFailed
    /\ calls[1].res = "AuthorizationException"
    /\ action = "backup_delete"
    /\ redundancy_period_days = 90
    /\ {Name_logs_0101, Name_logs_0601} \subseteq {cluster[c] : c \in DOMAIN cluster}
    /\ pc = "done"

\* how the run function hands control back to main: an exception that no
\* except clause of the function catches reaches the try of lines 247-263
Propagated == pc = "raised"

\* C14: a fatal condition at the listing of the indices (cluster unreachable,
\* authorization rejected, malformed request) propagates out of the run
\* function to its caller, which can thus tell an aborted run from a
\* completed one.
C14_FatalPropagatesToCaller ==
    (ListFailed /\ Finished) => Propagated

\* the last 14 characters of a snapshot name: its timestamp
Stamp(s) == SubSeq(s, Len(s) - 13, Len(s))

\* the createSnapshot call that precedes call k most closely
CreateBefore(k) ==
    CHOOSE i \in 1..(k - 1) :
        /\ calls[i].op = "snapshot.create"
        /\ \A m \in (i + 1)..(k - 1) : calls[m].op # "snapshot.create"

\* C15: every snapshot name of a run is "snapshot-", the index name, "-" and
\* the timestamp read once at the start of the batch (20240101133005 on the
\* model's clock), whatever time the run has slept since; the createSnapshot
\* calls of distinct indices carry distinct names, and each status query
\* names the snapshot that the createSnapshot call before it requested.
C15_SnapshotNameStable ==
    /\ current_date = Clock
    /\ Strftime(current_date)
            = <<"2", "0", "2", "4", "0", "1", "0", "1", "1", "3", "3", "0", "0", "5">>
    /\ \A k \in DOMAIN calls :
        /\ calls[k].op \in {"snapshot.create", "snapshot.status"} =>
            Stamp(calls[k].snapshot)
                = <<"2", "0", "2", "4", "0", "1", "0", "1", "1", "3", "3", "0", "0", "5">>
        /\ calls[k].op \notin {"snapshot.create", "snapshot.status"} =>
            calls[k].snapshot = NoIndex
        /\ calls[k].op = "snapshot.create" =>
            /\ calls[k].snapshot
                = <<"s", "n", "a", "p", "s", "h", "o", "t", "-">> \o calls[k].index
                    \o <<"-">> \o Stamp(calls[k].snapshot)
            /\ \A i \in 1..(k - 1) :
                (calls[i].op = "snapshot.create" /\ calls[i].index # calls[k].index)
                    => calls[i].snapshot # calls[k].snapshot
        /\ calls[k].op = "snapshot.status" =>
            /\ k > 1
            /\ \E i \in 1..(k - 1) : calls[i].op = "snapshot.create"
            /\ calls[CreateBefore(k)].res = "ack"
            /\ calls[CreateBefore(k)].snapshot = calls[k].snapshot

\* the second index's snapshot is requested and queried after the run slept
\* through two waits for the first one: the clock has moved on by a minute,
\* the names still carry the timestamp of the start
C15_Witness ==
    /\ SleptIn(calls) >= 60
    /\ Strftime(Now) # Strftime(current_date)
    /\ Len(calls) >= 2
    /\ calls[Len(calls)].op = "snapshot.status"
    /\ calls[Len(calls) - 1].op = "snapshot.create"
    /\ \E i \in 1..(Len(calls) - 2) :
        /\ calls[i].op = "snapshot.create"
        /\ calls[i].res = "ack"
        /\ calls[i].index # calls[Len(calls) - 1].index

\* C16: in both modes createSnapshot and deleteIndex are called only for
\* listed indices of the stale list, never for an index that is not older
\* than days or whose name carries no date; each such call names one index,
\* and each index gets at most one createSnapshot and at most one deleteIndex
\* call in a run (none of the former in delete mode).
C16_OnlyStaleAtMostOnce ==
    /\ \A k \in DOMAIN calls :
        IF IndexCall(k)
        THEN /\ calls[k].index \in OldNames
             /\ \E i \in DOMAIN indices : indices[i] = calls[k].index
             /\ calls[k].index \in DatedNames
             /\ AgeOnClock(calls[k].index) > redundancy_period_days
             /\ calls[k].index \notin Unparsable
             /\ \A m \in 1..(k - 1) :
                    calls[m].op = calls[k].op => calls[m].index # calls[k].index
             /\ calls[k].op = "snapshot.create" => action = "backup_delete"
        ELSE calls[k].index = NoIndex
    /\ \A x \in IndexNames :
        /\ Cardinality(CreatesOf(x)) <= 1
        /\ Cardinality(DeletesOf(x)) <= 1

\* a finished backup run on a listing of two stale indices and one without a
\* date: the stale ones each got one createSnapshot, the first was not
\* deleted and the second was
C16_Witness ==
    /\ action = "backup_delete"
    /\ pc = "done"
    /\ Len(indices) = 3
    /\ Len(old_indices) = 2
    /\ \E i \in DOMAIN indices : indices[i] \in Unparsable
    /\ Cardinality(CreatesOf(old_indices[1][1])) = 1
    /\ DeletesOf(old_indices[1][1]) = {}
    /\ Cardinality(CreatesOf(old_indices[2][1])) = 1
    /\ Cardinality(DeletesOf(old_indices[2][1])) = 1

\* deleteIndex has been called for x or is the next call of the run
DeleteAttempted(x) == DeletesOf(x) # {} \/ (pc = "delete" /\ index_name = x)

\* C17: when one of the status queries for an index's snapshot, the
\* snapshot_max_retries-th included, returns SUCCESS, the wait does not time
\* out and deleteIndex is attempted for the index; with snapshot_max_retries
\* = 0 no status query is made, every acknowledged snapshot times out and no
\* index is deleted.
C17_SuccessOnAnyPermittedPoll ==
    action = "backup_delete" =>
        /\ \A x \in OldNames :
            LET polls == PollsOf(x) IN
            /\ (\E k \in polls : calls[k].res = "SUCCESS") =>
                /\ ~TimedOut(x)
                /\ DeleteAttempted(x)
                /\ Cardinality(polls) <= snapshot_max_retries
            /\ snapshot_max_retries = 0 =>
                /\ polls = {}
                /\ DeletesOf(x) = {}
                /\ WaitOver(x) => TimedOut(x)
        /\ snapshot_max_retries = 0 =>
            /\ \A k \in DOMAIN calls : calls[k].op \notin {"snapshot.status", "indices.delete"}
            /\ Listed => cluster = indices

\* with a budget of two queries the second one returned SUCCESS, and the
\* index was deleted
C17_Witness ==
    /\ action = "backup_delete"
    /\ snapshot_max_retries = 2
    /\ \E x \in OldNames :
        /\ Cardinality(PollsOf(x)) = 2
        /\ Cardinality(WaitingPollsOf(x)) = 1
        /\ Succeeded(x)
        /\ \E k \in DeletesOf(x) : calls[k].res = "ack"

DiskCall(k) == calls[k].op = "disk_usage"

\* C18: in backup_delete mode the disk is sampled once before the first
\* index, as the call after the listing, and once right after each
\* acknowledged deleteIndex, and nowhere else: after an index that ended in a
\* failed or timed out snapshot or a failed deletion the next createSnapshot
\* follows without a sample. So every createSnapshot comes after a sample
\* that was not above the threshold and that is later than every acknowledged
\* deletion made so far.
C18_DiskSampledOnlyAtGateAndAfterDelete ==
    (action = "backup_delete" /\ Listed) =>
        /\ Len(calls) >= 2 => DiskCall(2)
        /\ Len(calls) = 1 => pc = "disk_gate"
        /\ \A k \in DOMAIN calls :
            /\ DiskCall(k) <=> (k = 2 \/ (k > 2 /\ DeletedCall(k - 1)))
            /\ DeletedCall(k) => (k = Len(calls) => pc = "disk_after")
            /\ calls[k].op = "snapshot.create" =>
                \E j \in 2..(k - 1) :
                    /\ DiskCall(j)
                    /\ calls[j].val <= disk_usage_threshold
                    /\ \A m \in (j + 1)..(k - 1) : ~DiskCall(m) /\ ~DeletedCall(m)

\* a finished run of two stale indices with two samples in all: the first
\* index's deletion failed and the second createSnapshot followed at once,
\* the second index was deleted and the disk sampled after it
C18_Witness ==
    /\ action = "backup_delete"
    /\ pc = "done"
    /\ Len(old_indices) = 2
    /\ Cardinality({k \in DOMAIN calls : DiskCall(k)}) = 2
    /\ DeleteFailed(old_indices[1][1])
    /\ \E k \in CreatesOf(old_indices[2][1]) :
        /\ calls[k - 1].op = "indices.delete"
        /\ calls[k - 1].res # "ack"
    /\ DiskCall(Len(calls))
    /\ DeletedCall(Len(calls) - 1)

\* the number of calls of one operation made so far
CountOf(op) == Cardinality({k \in DOMAIN calls : calls[k].op = op})

\* the calls of a run stay within what the stale list and the retry budget
\* allow
WithinBudget ==
    /\ Len(old_indices) <= Len(indices)
    /\ CountOf("indices.get_alias") <= 1
    /\ CountOf("snapshot.create") <= Len(old_indices)
    /\ CountOf("snapshot.status") <= Len(old_indices) * snapshot_max_retries
    /\ CountOf("sleep") <= Len(old_indices) * snapshot_max_retries
    /\ CountOf("indices.delete") <= Len(old_indices)
    /\ CountOf("disk_usage") <= Len(old_indices) + 1

\* C19: every run comes to its end, whatever the cluster answers (a snapshot
\* that stays IN_PROGRESS included), and until then makes at most one
\* createSnapshot and one deleteIndex call per stale index and at most
\* snapshot_max_retries status queries per stale index.
C19_TerminatesWithinBudget == <>(pc = "done") /\ []WithinBudget

\* a finished backup run of two stale indices that used the whole budget of
\* status queries: every query of both snapshots answered IN_PROGRESS
C19_Witness ==
    /\ action = "backup_delete"
    /\ pc = "done"
    /\ Len(old_indices) = 2
    /\ snapshot_max_retries = 2
    /\ CountOf("snapshot.create") = 2
    /\ CountOf("snapshot.status") = 4
    /\ \A k \in DOMAIN calls : calls[k].op = "snapshot.status" => calls[k].res = "IN_PROGRESS"

====
